---- MODULE Spec2Model ----
(***************************************************************************)
(* Model of the Couchbase eventing watcher's reconciliation pass           *)
(* (checkEventingService), the status store (function_status table), the   *)
(* transition alerting of updateFunctionStatus and the scheduling of the   *)
(* passes (startApplication, startScheduler).                              *)
(*                                                                         *)
(* Every `await` of the source is a suspension point.  An action of the    *)
(* model is one continuation: it consumes the result of the awaited        *)
(* operation, runs the synchronous code up to the next `await` and issues  *)
(* the next operation.  A store operation (bun:sqlite is synchronous)      *)
(* takes effect when it is issued; its result, or the error it threw, is   *)
(* seen by the next continuation, which runs as a microtask before the     *)
(* event loop handles another answer, timer or request.                    *)
(*                                                                         *)
(* Specifications:                                                         *)
(*   Spec        the first check, every stats answer, failing fetches and  *)
(*               store operations                                          *)
(*   SpecCron    the first check and overlapping cron-triggered checks     *)
(*   SpecStore   the store functions of database.ts called by one client   *)
(*   SpecHealth  GET /health served while the first check runs             *)
(*   SpecFail    the first check with failures of every kind, fair         *)
(*   SpecNotify  SpecCron with failing webhook sends, fair                 *)
(*   SpecConfig  the first check under every loaded configuration          *)
(*   SpecOverlap SpecCron over a live list that changes between the checks *)
(*   SpecPair    SpecOverlap with the cron triggers of MaxPairTicks         *)
(***************************************************************************)
EXTENDS Integers, Sequences, FiniteSets, TLC

\* ------------------------------------------------------------------ bounds
MaxCronTicks == 2      \* cron triggers that fire in a run
MaxTime == 3           \* largest value of the millisecond clock
MaxDbFailures == 1     \* store operations that fail in a run
MaxSendFailures == 1   \* webhook sends that fail in a run
MaxRows == 3           \* rows a client of the store functions inserts
MaxPairTicks == 1      \* cron triggers that fire in a run of SpecPair

\* ------------------------------------------------------- program constants
DCP_BACKLOG_THRESHOLD == 1000

StartupPass == 0
NoPass == 99
PassIds == 0..MaxCronTicks

\* The answers getFunctionList can give.
LiveLists == {<<>>, <<"f1">>, <<"f1", "f2">>}

\* composite_status values the server reports.
RawStatuses == {"deployed", "paused", "undeployed"}

NoName == "-"
NoStatus == "-"
NoMessage == <<"-", "-">>
NoRow == [id |-> 0, function_name |-> NoName, status |-> NoStatus,
          message |-> NoMessage, timestamp |-> 0, by |-> 0]

NoStats == [composite_status |-> NoStatus, redeploy_required |-> FALSE,
            dcp_backlog |-> 0, on_update_failure |-> 0,
            on_delete_failure |-> 0, timeout_count |-> 0]

\* The successful answers of the four stats fetches for one function.
StatsInputs ==
    [composite_status : RawStatuses,
     redeploy_required : BOOLEAN,
     dcp_backlog : {DCP_BACKLOG_THRESHOLD, DCP_BACKLOG_THRESHOLD + 1},
     on_update_failure : {0, 1},
     on_delete_failure : {0, 1},
     timeout_count : {0, 1}]

\* The error of the k-th stats fetch (checkFunctionStatus,
\* checkExecutionStats, checkFailureStats, checkDcpBacklogSize).
FetchError(k) ==
    CASE k = 1 -> "status fetch failed"
      [] k = 2 -> "execution stats fetch failed"
      [] k = 3 -> "failure stats fetch failed"
      [] OTHER -> "backlog fetch failed"

DbError == "database error"

\* ------------------------------------------------------ the configuration

\* A variable of the environment that is not set, and one that holds text
\* that is no number; every other value is the number its text denotes.
Unset == -1

NotANumber == -2

\* config.eventing.DCP_BACKLOG_THRESHOLD as
\* Number(process.env.DCP_BACKLOG_THRESHOLD) || 1000: Number gives NaN for
\* an unset variable and for text that is no number, and NaN and 0 are
\* falsy.
NumberOrDefault(value) ==
    IF value \in {Unset, NotANumber, 0} THEN DCP_BACKLOG_THRESHOLD ELSE value

\* getEnvOrThrow(key) throws for a variable that is not set.
getEnvOrThrowThrows(value) == value = Unset

getEnvOrThrow(value) == value

\* getEnvNumberOrThrow(key) throws also for text that is no number.
getEnvNumberOrThrowThrows(value) ==
    getEnvOrThrowThrows(value) \/ getEnvOrThrow(value) = NotANumber

getEnvNumberOrThrow(value) == getEnvOrThrow(value)

\* The two ways the configuration file loads the threshold.
Loaders == {"NumberOrDefault", "getEnvNumberOrThrow"}

\* The configuration object built from the environment env.
LoadConfig(loader, env) ==
    [loader |-> loader, env |-> env,
     eventing |->
        [DCP_BACKLOG_THRESHOLD |->
            IF loader = "NumberOrDefault"
            THEN NumberOrDefault(env.DCP_BACKLOG_THRESHOLD)
            ELSE getEnvNumberOrThrow(env.DCP_BACKLOG_THRESHOLD)],
     messaging |-> [ALERT_TYPE |-> getEnvOrThrow(env.ALERT_TYPE)]]

\* Whether building the configuration object throws: the module fails to
\* load and the program does not start.
LoadConfigThrows(loader, env) ==
    \/ getEnvOrThrowThrows(env.ALERT_TYPE)
    \/ /\ loader = "getEnvNumberOrThrow"
       /\ getEnvNumberOrThrowThrows(env.DCP_BACKLOG_THRESHOLD)

\* The environment of .env.example.
DefaultEnv == [DCP_BACKLOG_THRESHOLD |-> DCP_BACKLOG_THRESHOLD, ALERT_TYPE |-> 1]

DefaultConfig == LoadConfig("getEnvNumberOrThrow", DefaultEnv)

\* sendAlert(message, options): the sender the selector chooses, "none"
\* when it sends nothing, and the value it returns when the send succeeds.
sendAlertTransport(alertLevel) ==
    CASE alertLevel = 1 -> "slack"
      [] alertLevel = 2 -> "teams"
      [] OTHER -> "none"

sendAlertResult(alertLevel) == alertLevel \in {0, 1, 2}

VARIABLES
    store,                \* rows of table function_status, in insertion order
    nextId,               \* AUTOINCREMENT id of the next row
    clock,                \* Date.now()
    isApplicationHealthy, \* the flag of healthCheck.ts
    alerts,               \* the alerts handed to sendSlackAlert, in order
    pass,                 \* per pass: position and locals of checkEventingService
    dbFailures,           \* store operations that may still fail in this run
    app,                  \* position of startApplication
    cronCount,            \* cron triggers fired so far
    sendFailures,         \* webhook sends that may still fail in this run
    health,               \* the GET /health request being served, its response
    dbCall,               \* the last call of a store function by a client
    config                \* the configuration loaded from the environment

vars == <<store, nextId, clock, isApplicationHealthy, alerts, pass,
          dbFailures, app, cronCount, sendFailures, health, dbCall, config>>

Range(seq) == {seq[k] : k \in 1..Len(seq)}

\* ------------------------------------------------------------ the store

\* InsertRow as an update in place: the new row takes the place of the rows
\* the function already has.
InsertRow_Upsert(s, id, functionName, status, message, timestamp, p) ==
    LET Others(r) == r.function_name # functionName
    IN  Append(SelectSeq(s, Others),
               [id |-> id, function_name |-> functionName, status |-> status,
                message |-> message, timestamp |-> timestamp, by |-> p])

\* INSERT INTO function_status (function_name, status, message, timestamp).
\* `by` is a history field: the pass that inserted the row.
InsertRow(s, id, functionName, status, message, timestamp, p) ==
    Append(s, [id |-> id, function_name |-> functionName, status |-> status,
               message |-> message, timestamp |-> timestamp, by |-> p])

\* GetLatestResults with the rows in ascending order of timestamp.
GetLatestResults_Oldest(s, functionName) ==
    LET mine == {k \in 1..Len(s) : s[k].function_name = functionName}
        low  == {k \in mine : \A m \in mine : s[k].timestamp <= s[m].timestamp}
    IN  IF mine = {} THEN {NoRow} ELSE {s[k] : k \in low}

\* SELECT ... WHERE function_name = ? ORDER BY timestamp DESC LIMIT 1,
\* result[0] || null.  SQL leaves the order of rows with equal timestamps
\* open, so every row with the greatest timestamp is a possible answer.
GetLatestResults(s, functionName) ==
    LET mine == {k \in 1..Len(s) : s[k].function_name = functionName}
        top  == {k \in mine : \A m \in mine : s[m].timestamp <= s[k].timestamp}
    IN  IF mine = {} THEN {NoRow} ELSE {s[k] : k \in top}

\* DeleteNotIn that also drops the older rows of the names it keeps.
DeleteNotIn_KeepLatestOnly(s, currentFunctions) ==
    LET Keep(r) ==
            /\ r.function_name \in Range(currentFunctions)
            /\ \A k \in DOMAIN s :
                  s[k].function_name = r.function_name
                  => s[k].timestamp <= r.timestamp
    IN  SelectSeq(s, Keep)

\* DELETE FROM function_status WHERE function_name NOT IN (...).
DeleteNotIn(s, currentFunctions) ==
    LET Keep(r) == r.function_name \in Range(currentFunctions)
    IN  SelectSeq(s, Keep)

\* The function names in the order of ORDER BY function_name.
NameOrder == <<"f1", "f2", "f3">>

NameIndex(functionName) ==
    CHOOSE k \in DOMAIN NameOrder : NameOrder[k] = functionName

\* All the orders in which the elements of S can be listed.
RECURSIVE Orderings(_)
Orderings(S) ==
    IF S = {} THEN {<<>>}
    ELSE UNION {{<<x>> \o q : q \in Orderings(S \ {x})} : x \in S}

\* SELECT ... FROM function_status fs1 WHERE timestamp = (SELECT
\* MAX(timestamp) ... WHERE fs2.function_name = fs1.function_name)
\* ORDER BY function_name, timestamp DESC.  Every row that has the greatest
\* timestamp of its name is selected; rows of one name that are selected
\* have equal timestamps and come in any order.
GetLatestStatusesResults(s) ==
    LET top == {k \in DOMAIN s :
                   \A m \in DOMAIN s :
                       s[m].function_name = s[k].function_name
                       => s[m].timestamp <= s[k].timestamp}
        Sorted(q) == \A a, b \in DOMAIN q :
                        a < b => NameIndex(s[q[a]].function_name)
                                   <= NameIndex(s[q[b]].function_name)
    IN  {[k \in DOMAIN q |-> s[q[k]]] : q \in {o \in Orderings(top) : Sorted(o)}}

\* Whether the store operation being issued may fail here.
FailChoices == IF dbFailures > 0 THEN BOOLEAN ELSE {FALSE}

\* Date.now(): the clock never goes back.
DateNow == IF clock < MaxTime THEN {clock, clock + 1} ELSE {clock}

\* ------------------------------------------------- evaluation of the stats

BreachKinds == {"redeploy_required", "backlog_exceeded",
                "execution_failures", "timeouts"}

\* dcpBacklog.dcp_backlog > config.eventing.DCP_BACKLOG_THRESHOLD
BacklogExceeded(s) == s.dcp_backlog > config.eventing.DCP_BACKLOG_THRESHOLD

\* The conditions checkEventingService tests (and logs) for one function.
Breaches(s) ==
    {k \in BreachKinds :
        \/ k = "redeploy_required" /\ s.redeploy_required
        \/ k = "backlog_exceeded" /\ BacklogExceeded(s)
        \/ k = "execution_failures"
             /\ (s.on_update_failure > 0 \/ s.on_delete_failure > 0)
        \/ k = "timeouts" /\ s.timeout_count > 0}

\* statusMessage: set from the composite status, then overwritten by each
\* condition that holds, in the order of the source.
StatusMessage(s) ==
    LET m0 == <<"Eventing Function", s.composite_status>>
        m1 == IF s.redeploy_required
              THEN <<"requires redeployment", "">> ELSE m0
        m2 == IF BacklogExceeded(s)
              THEN <<"DCP backlog size exceeds threshold", "">> ELSE m1
        m3 == IF s.on_update_failure > 0 \/ s.on_delete_failure > 0
              THEN <<"Function execution failures detected", "">> ELSE m2
        m4 == IF s.timeout_count > 0
              THEN <<"has timeouts detected", "">> ELSE m3
    IN  m4

\* ErrorCheckingMessage with the cause dropped.
ErrorCheckingMessage_NoCause(cause) ==
    <<"Error checking function", "Unknown error">>

ErrorCheckingMessage(cause) == <<"Error checking function", cause>>

\* ------------------------------------------------------------- the alerts

\* The alert updateFunctionStatus sends for a change of status.
TransitionSeverity(previous, status) ==
    IF status = "error" \/ status = "paused" THEN "warning" ELSE "info"

\* TransitionText with every change to deployed reported as a recovery.
TransitionText_AnyToDeployed(previous, status) ==
    IF status = "error" \/ status = "paused"
    THEN "status changed"
    ELSE IF status = "deployed" THEN "has recovered" ELSE "status changed"

TransitionText(previous, status) ==
    IF status = "error" \/ status = "paused"
    THEN "status changed"
    ELSE IF status = "deployed" /\ (previous = "error" \/ previous = "paused")
         THEN "has recovered"
         ELSE "status changed"

\* The message "status changed" names both statuses, "has recovered" none.
TransitionAlert(p, functionName, latest, status, rowId) ==
    LET text == TransitionText(latest.status, status)
    IN  [pass |-> p, kind |-> "transition", functionName |-> functionName,
         severity |-> TransitionSeverity(latest.status, status),
         text |-> text,
         names |-> IF text = "status changed"
                   THEN {latest.status, status} ELSE {},
         previousStatus |-> latest.status, currentStatus |-> status,
         previousRow |-> latest.id, row |-> rowId, delivered |-> TRUE,
         transport |-> "slack"]

\* The alert of the outer catch of checkEventingService.
ProcessAlert(p) ==
    [pass |-> p, kind |-> "process", functionName |-> NoName,
     severity |-> "error",
     text |-> "Error checking Couchbase Eventing Functions",
     names |-> {}, previousStatus |-> NoStatus, currentStatus |-> NoStatus,
     previousRow |-> 0, row |-> 0, delivered |-> TRUE,
     transport |-> "slack"]

StartedAlert ==
    [pass |-> NoPass, kind |-> "started", functionName |-> NoName,
     severity |-> "info", text |-> "Couchbase Eventing Watcher started",
     names |-> {}, previousStatus |-> NoStatus, currentStatus |-> NoStatus,
     previousRow |-> 0, row |-> 0, delivered |-> TRUE,
     transport |-> "slack"]

\* Whether the webhook send being started may fail here.
SendChoices == IF sendFailures > 0 THEN BOOLEAN ELSE {TRUE}

\* await sendSlackAlert(...) by pass p: the webhook send succeeds or fails;
\* a failure is caught and logged, and the call returns false.
sendSlackAlert(p, l, a, pcNext) ==
    \E ok \in SendChoices :
       /\ alerts' = Append(alerts, [a EXCEPT !.delivered = ok])
       /\ sendFailures' = sendFailures - (IF ok THEN 0 ELSE 1)
       /\ pass' = [pass EXCEPT ![p] = [l EXCEPT !.pc = pcNext, !.sent = ok]]

\* ------------------------------------------------------------- the state

\* Locals of one run of checkEventingService.  The fields from listed on
\* are history fields: they record what the pass has done and steer nothing.
\*   listed           "no", "ok" or "failed": the answer of getFunctionList
\*   fetchStarted     functions whose stats fetches were started
\*   fetchFailed      <<function, error>> of the stats fetches that threw
\*   evaluated        functions whose stats were tested for breaches
\*   breaches         the breaches found for the current function
\*   dcpBacklog       the backlog size fetched for the current function
\*   insertAttempted  functions for which the INSERT was issued
\*   storeFailedIn    functions during whose processing a store operation threw
\*   writes           INSERT and DELETE statements issued
\*   removes          bulk deletes issued
\*   removeFailed     the bulk delete threw
\*   returnedHealthy  the flag when checkEventingService returned
\*   listSeq          the place of the pass's live list among the live lists
\*                    fetched in this run, 0 before the list is fetched
\*   finishSeq        the place of the pass among the passes that have
\*                    returned, 0 while it has not returned
\*   reappeared       functions of the live list that were absent from the
\*                    live list fetched just before, by a pass that had
\*                    completed when this pass got its list
IdleLocals ==
    [pc |-> "idle", functionList |-> <<>>, i |-> 0,
     functionStatus |-> NoStatus, statusMessage |-> NoMessage,
     inCatch |-> FALSE, errorMessage |-> "",
     res |-> NoRow, threw |-> FALSE, sent |-> TRUE,
     status |-> NoStatus, message |-> NoMessage, timestamp |-> 0,
     latestStatus |-> NoRow,
     listed |-> "no", fetchStarted |-> {}, fetchFailed |-> {},
     evaluated |-> {}, breaches |-> {}, dcpBacklog |-> 0,
     insertAttempted |-> {},
     storeFailedIn |-> {}, writes |-> 0, removes |-> 0,
     removeFailed |-> FALSE,
     returnedHealthy |-> TRUE, listSeq |-> 0, reappeared |-> {},
     finishSeq |-> 0]

\* The table is kept in a file (CREATE TABLE IF NOT EXISTS): a run starts
\* with the rows an earlier run of the program has left.
\* No request to GET /health has been made.
IdleHealth ==
    [pc |-> "idle", functionList |-> <<>>, code |-> 0, watcher |-> TRUE,
     functions |-> {}, listFailed |-> FALSE, statsFailed |-> {},
     afterPass |-> FALSE]

\* No store function has been called by a client.
NoCall ==
    [op |-> "none", name |-> NoName, names |-> <<>>, before |-> <<>>,
     result |-> <<>>]

InitState(stores, failures, sends) ==
    /\ store \in stores
    /\ nextId = 2
    /\ clock = 1
    /\ isApplicationHealthy = TRUE
    /\ alerts = <<>>
    /\ pass = [p \in PassIds |-> IdleLocals]
    /\ dbFailures = failures
    /\ app = "boot"
    /\ cronCount = 0
    /\ sendFailures = sends
    /\ health = IdleHealth
    /\ dbCall = NoCall

InitWith(stores, failures, sends) ==
    /\ InitState(stores, failures, sends)
    /\ config = DefaultConfig

setApplicationStatus(healthy) == isApplicationHealthy' = healthy

FunctionName(l) == l.functionList[l.i]

\* ----------------------------------------------------------- the event loop

\* Positions at which a pass awaits a promise that a store function has
\* already settled (bun:sqlite runs the statement inside the call, and
\* tracedOperation only wraps it in promises): the continuation is a
\* microtask.
MicrotaskPcs == {"read", "ufs_read", "ufs_insert", "remove"}

\* The microtask queue is empty.  The event loop runs the microtasks to the
\* end before it takes the next task: no answer of a fetch, no timer and no
\* request is handled while a continuation of a store call is pending.
EventLoopIdle == \A q \in PassIds : pass[q].pc \notin MicrotaskPcs

\* ------------------------------------------- pieces of checkEventingService

\* await getLatestFunctionStatus(functionName): the query runs now.
CallGetLatest(p, l, pcNext) ==
    /\ \E fail \in FailChoices :
       \E r \in GetLatestResults(store, FunctionName(l)) :
          /\ pass' = [pass EXCEPT ![p] =
                 [l EXCEPT !.pc = pcNext,
                           !.res = IF fail THEN NoRow ELSE r,
                           !.threw = fail,
                           !.storeFailedIn =
                               IF fail THEN @ \cup {FunctionName(l)} ELSE @]]
          /\ dbFailures' = dbFailures - (IF fail THEN 1 ELSE 0)
    /\ UNCHANGED <<store, nextId, clock, isApplicationHealthy, alerts,
                   sendFailures>>

\* updateFunctionStatus(functionName, status, message, previousStatus) up to
\* its first await: takes the timestamp and reads the latest row.
\* previousStatus is only logged.
CallUpdateFunctionStatus(p, l, status, message) ==
    /\ \E t \in DateNow :
       \E fail \in FailChoices :
       \E r \in GetLatestResults(store, FunctionName(l)) :
          /\ clock' = t
          /\ pass' = [pass EXCEPT ![p] =
                 [l EXCEPT !.pc = "ufs_read",
                           !.status = status, !.message = message,
                           !.timestamp = t,
                           !.res = IF fail THEN NoRow ELSE r,
                           !.threw = fail,
                           !.storeFailedIn =
                               IF fail THEN @ \cup {FunctionName(l)} ELSE @]]
          /\ dbFailures' = dbFailures - (IF fail THEN 1 ELSE 0)
    /\ UNCHANGED <<store, nextId, isApplicationHealthy, alerts,
                   sendFailures>>

\* The catch of the whole pass: flag false, one process-level alert.
OuterCatch(p, l) ==
    /\ setApplicationStatus(FALSE)
    /\ sendSlackAlert(p, l, ProcessAlert(p), "fail_alert")
    /\ UNCHANGED <<store, nextId, clock, dbFailures>>

\* The catch of one function: reads the latest row again, then records
\* status error.
InnerCatch(p, l, cause) ==
    CallGetLatest(p, [l EXCEPT !.inCatch = TRUE, !.errorMessage = cause],
                  "read")

\* An error thrown while function i is processed: inside the try block it
\* reaches the catch of the function, inside that catch it reaches the catch
\* of the pass.
Throw(p, l, cause) ==
    IF l.inCatch THEN OuterCatch(p, l) ELSE InnerCatch(p, l, cause)

\* CallRemove without the DELETE.
CallRemove_NoDelete(p, l) ==
    /\ pass' = [pass EXCEPT ![p] =
           [l EXCEPT !.pc = "remove", !.threw = FALSE,
                     !.removes = @ + 1, !.writes = @ + 1]]
    /\ UNCHANGED <<store, nextId, clock, isApplicationHealthy, alerts,
                   sendFailures, dbFailures>>

\* await removeOutdatedFunctions(functionList): the delete runs now.
CallRemove(p, l) ==
    /\ \E fail \in FailChoices :
          /\ store' = IF fail THEN store ELSE DeleteNotIn(store, l.functionList)
          /\ pass' = [pass EXCEPT ![p] =
                 [l EXCEPT !.pc = "remove", !.threw = fail,
                           !.removeFailed = fail,
                           !.removes = @ + 1,
                           !.writes = @ + 1]]
          /\ dbFailures' = dbFailures - (IF fail THEN 1 ELSE 0)
    /\ UNCHANGED <<nextId, clock, isApplicationHealthy, alerts,
                   sendFailures>>

\* The four stats fetches of function k are started.
CallStats(p, l, k) ==
    /\ pass' = [pass EXCEPT ![p] =
           [l EXCEPT !.pc = "stats", !.i = k, !.inCatch = FALSE,
                     !.errorMessage = "",
                     !.functionStatus = NoStatus, !.statusMessage = NoMessage,
                     !.status = NoStatus, !.message = NoMessage,
                     !.timestamp = 0, !.latestStatus = NoRow,
                     !.res = NoRow, !.threw = FALSE, !.sent = TRUE,
                     !.breaches = {}, !.dcpBacklog = 0,
                     !.fetchStarted = @ \cup {l.functionList[k]}]]
    /\ UNCHANGED <<store, nextId, clock, isApplicationHealthy, alerts,
                   dbFailures, sendFailures>>

\* End of the loop body: the next function, or the bulk delete.
NextFunction(p, l) ==
    IF l.i < Len(l.functionList)
    THEN CallStats(p, l, l.i + 1)
    ELSE CallRemove(p, l)

\* --------------------------------------------------------------- actions

\* startApplication up to its first await: health server, startScheduler,
\* sendSlackAlert("... started").
StartApplication ==
    /\ EventLoopIdle
    /\ app = "boot"
    /\ app' = "started_alert"
    /\ \E ok \in SendChoices :
          /\ alerts' = Append(alerts, [StartedAlert EXCEPT !.delivered = ok])
          /\ sendFailures' = sendFailures - (IF ok THEN 0 ELSE 1)
    /\ UNCHANGED <<store, nextId, clock, isApplicationHealthy, pass,
                   dbFailures, cronCount, health, dbCall, config>>

\* The started alert has returned: startApplication calls
\* checkEventingService, which awaits getFunctionList.
StartupPassStart ==
    /\ EventLoopIdle
    /\ app = "started_alert"
    /\ app' = "first_check"
    /\ pass' = [pass EXCEPT ![StartupPass].pc = "list"]
    /\ UNCHANGED <<store, nextId, clock, isApplicationHealthy, alerts,
                   dbFailures, cronCount, sendFailures, health, dbCall, config>>

\* Pass q has returned from checkEventingService through its last statement.
CompletedNormally(q) ==
    /\ pass[q].pc \in {"metrics", "done"}
    /\ pass[q].listed = "ok"
    /\ ~pass[q].removeFailed
    /\ pass[q].returnedHealthy

\* The live lists fetched so far, and the pass that fetched the last one.
ListAnswers == Cardinality({q \in PassIds : pass[q].listSeq > 0})

LastListed == {q \in PassIds : pass[q].listSeq > 0 /\ pass[q].listSeq = ListAnswers}

\* The functions of live list fl that the list fetched just before, by a
\* pass that has completed, did not hold.
Reappeared(fl) ==
    {f \in Range(fl) :
        \E q \in LastListed :
            CompletedNormally(q) /\ f \notin Range(pass[q].functionList)}

\* The locals of a pass that has got live list fl.
Listed(l, fl) ==
    [l EXCEPT !.functionList = fl, !.i = 0, !.listed = "ok",
              !.listSeq = ListAnswers + 1, !.reappeared = Reappeared(fl)]

\* The cron schedule fires: the callback calls checkEventingService.
\* node-cron does not look at the earlier runs of the callback.
CronTick(maxTicks) ==
    /\ EventLoopIdle
    /\ app # "boot"
    /\ cronCount < maxTicks
    /\ clock < MaxTime
    /\ cronCount' = cronCount + 1
    /\ clock' = clock + 1
    /\ pass' = [pass EXCEPT ![cronCount + 1].pc = "list"]
    /\ UNCHANGED <<store, nextId, isApplicationHealthy, alerts, dbFailures,
                   app, sendFailures, health, dbCall, config>>

\* ListDone with a failed fetch taken for an empty list.
ListDone_FailedAsEmpty(p, lists) ==
    /\ EventLoopIdle
    /\ pass[p].pc = "list"
    /\ \/ \E fl \in lists :
            NextFunction(p, Listed(pass[p], fl))
       \/ NextFunction(p, [pass[p] EXCEPT !.functionList = <<>>, !.i = 0,
                                          !.listed = "failed"])
    /\ UNCHANGED <<app, cronCount, health, dbCall, config>>

\* getFunctionList has answered.
ListDone(p, lists) ==
    /\ EventLoopIdle
    /\ pass[p].pc = "list"
    /\ \/ \E fl \in lists :
            NextFunction(p, Listed(pass[p], fl))
       \/ OuterCatch(p, [pass[p] EXCEPT !.listed = "failed"])
    /\ UNCHANGED <<app, cronCount, health, dbCall, config>>

\* The stats fetches of the current function have answered: all four
\* succeeded, or the k-th threw.
StatsDone(p, inputs, failing) ==
    /\ EventLoopIdle
    /\ pass[p].pc = "stats"
    /\ LET l == pass[p]
           fn == FunctionName(l)
       IN  \/ \E s \in inputs :
                CallGetLatest(p,
                    [l EXCEPT !.functionStatus = s.composite_status,
                              !.statusMessage = StatusMessage(s),
                              !.breaches = Breaches(s),
                              !.dcpBacklog = s.dcp_backlog,
                              !.evaluated = @ \cup {fn}],
                    "read")
           \/ \E k \in failing :
                InnerCatch(p,
                    [l EXCEPT !.fetchFailed = @ \cup {<<fn, FetchError(k)>>}],
                    FetchError(k))
    /\ UNCHANGED <<app, cronCount, health, dbCall, config>>

\* getLatestFunctionStatus of checkEventingService has answered; the pass
\* calls updateFunctionStatus.
ReadDone(p) ==
    /\ pass[p].pc = "read"
    /\ LET l == pass[p]
       IN  IF l.threw
           THEN Throw(p, l, DbError)
           ELSE IF l.inCatch
                THEN CallUpdateFunctionStatus(p, l, "error",
                         ErrorCheckingMessage(l.errorMessage))
                ELSE CallUpdateFunctionStatus(p, l, l.functionStatus,
                         l.statusMessage)
    /\ UNCHANGED <<app, cronCount, health, dbCall, config>>

\* UfsReadDone with the latest row read after the INSERT: the row the
\* function compares with is the row it has just written.
UfsReadDone_ReadAfterInsert(p) ==
    /\ pass[p].pc = "ufs_read"
    /\ LET l == pass[p]
           fn == FunctionName(l)
           inserted == InsertRow(store, nextId, fn, l.status, l.message,
                                 l.timestamp, p)
       IN  IF l.threw
           THEN Throw(p, l, DbError)
           ELSE \E fail \in FailChoices :
                  /\ store' = IF fail THEN store ELSE inserted
                  /\ nextId' = IF fail THEN nextId ELSE nextId + 1
                  /\ pass' = [pass EXCEPT ![p] =
                         [l EXCEPT !.pc = "ufs_insert",
                                   !.latestStatus =
                                       IF fail THEN l.res
                                       ELSE inserted[Len(inserted)],
                                   !.res = IF fail THEN NoRow
                                           ELSE [NoRow EXCEPT !.id = nextId],
                                   !.threw = fail,
                                   !.insertAttempted = @ \cup {fn},
                                   !.storeFailedIn =
                                       IF fail THEN @ \cup {fn} ELSE @,
                                   !.writes = @ + 1]]
                  /\ dbFailures' = dbFailures - (IF fail THEN 1 ELSE 0)
                  /\ UNCHANGED <<clock, isApplicationHealthy, alerts,
                                 sendFailures>>
    /\ UNCHANGED <<app, cronCount, health, dbCall, config>>

\* updateFunctionStatus: the latest row has been read; insert the new row.
UfsReadDone(p) ==
    /\ pass[p].pc = "ufs_read"
    /\ LET l == pass[p]
           fn == FunctionName(l)
       IN  IF l.threw
           THEN Throw(p, l, DbError)
           ELSE \E fail \in FailChoices :
                  /\ store' = IF fail THEN store
                              ELSE InsertRow(store, nextId, fn, l.status,
                                             l.message, l.timestamp, p)
                  /\ nextId' = IF fail THEN nextId ELSE nextId + 1
                  /\ pass' = [pass EXCEPT ![p] =
                         [l EXCEPT !.pc = "ufs_insert",
                                   !.latestStatus = l.res,
                                   !.res = IF fail THEN NoRow
                                           ELSE [NoRow EXCEPT !.id = nextId],
                                   !.threw = fail,
                                   !.insertAttempted = @ \cup {fn},
                                   !.storeFailedIn =
                                       IF fail THEN @ \cup {fn} ELSE @,
                                   !.writes = @ + 1]]
                  /\ dbFailures' = dbFailures - (IF fail THEN 1 ELSE 0)
                  /\ UNCHANGED <<clock, isApplicationHealthy, alerts,
                                 sendFailures>>
    /\ UNCHANGED <<app, cronCount, health, dbCall, config>>

\* StatusChanged without the test for a missing previous row.
StatusChanged_NoNullCheck(latest, status) == latest.status # status

\* The condition under which updateFunctionStatus sends a transition alert.
StatusChanged(latest, status) == latest # NoRow /\ latest.status # status

\* UfsInsertDone with the alert sent whether or not the INSERT threw.
UfsInsertDone_AlertBeforeInsert(p) ==
    /\ pass[p].pc = "ufs_insert"
    /\ LET l == pass[p]
       IN  IF StatusChanged(l.latestStatus, l.status)
           THEN /\ sendSlackAlert(p, l,
                       TransitionAlert(p, FunctionName(l),
                           l.latestStatus, l.status, l.res.id),
                       "ufs_alert")
                /\ UNCHANGED <<store, nextId, clock,
                               isApplicationHealthy, dbFailures>>
           ELSE IF l.threw
                THEN Throw(p, l, DbError)
                ELSE NextFunction(p, l)
    /\ UNCHANGED <<app, cronCount, health, dbCall, config>>

\* updateFunctionStatus: the row is inserted; compare with the row read
\* before and alert on a change.
UfsInsertDone(p) ==
    /\ pass[p].pc = "ufs_insert"
    /\ LET l == pass[p]
       IN  IF l.threw
           THEN Throw(p, l, DbError)
           ELSE IF StatusChanged(l.latestStatus, l.status)
                THEN /\ sendSlackAlert(p, l,
                            TransitionAlert(p, FunctionName(l),
                                l.latestStatus, l.status, l.res.id),
                            "ufs_alert")
                     /\ UNCHANGED <<store, nextId, clock,
                                    isApplicationHealthy, dbFailures>>
                ELSE NextFunction(p, l)
    /\ UNCHANGED <<app, cronCount, health, dbCall, config>>

\* UfsAlertDone with a failed send thrown as an error.
UfsAlertDone_ThrowOnFailedSend(p) ==
    /\ EventLoopIdle
    /\ pass[p].pc = "ufs_alert"
    /\ IF pass[p].sent
       THEN NextFunction(p, pass[p])
       ELSE Throw(p, pass[p], "send failed")
    /\ UNCHANGED <<app, cronCount, health, dbCall, config>>

\* sendSlackAlert of updateFunctionStatus has returned (true or false, the
\* result is not looked at).
UfsAlertDone(p) ==
    /\ EventLoopIdle
    /\ pass[p].pc = "ufs_alert"
    /\ NextFunction(p, pass[p])
    /\ UNCHANGED <<app, cronCount, health, dbCall, config>>

\* The passes that have returned from checkEventingService.
Finished == Cardinality({q \in PassIds : pass[q].finishSeq > 0})

\* Locals that are dead once checkEventingService has returned.
Returned(l, healthy) ==
    [l EXCEPT !.pc = "metrics", !.returnedHealthy = healthy,
              !.finishSeq = Finished + 1,
              !.functionStatus = NoStatus,
              !.statusMessage = NoMessage, !.status = NoStatus,
              !.message = NoMessage, !.timestamp = 0,
              !.latestStatus = NoRow, !.res = NoRow, !.threw = FALSE,
              !.errorMessage = "", !.inCatch = FALSE, !.breaches = {}, !.dcpBacklog = 0,
              !.sent = TRUE]

\* removeOutdatedFunctions has returned: setApplicationStatus(true) and the
\* pass returns; its caller awaits getEventingMetrics.
RemoveDone(p) ==
    /\ pass[p].pc = "remove"
    /\ LET l == pass[p]
       IN  IF l.threw
           THEN OuterCatch(p, l)
           ELSE /\ setApplicationStatus(TRUE)
                /\ pass' = [pass EXCEPT ![p] = Returned(l, TRUE)]
                /\ UNCHANGED <<store, nextId, clock, alerts, dbFailures,
                               sendFailures>>
    /\ UNCHANGED <<app, cronCount, health, dbCall, config>>

\* FailAlertDone with the error thrown again by the outer catch: the promise
\* of checkEventingService is rejected.
FailAlertDone_Rethrow(p) ==
    /\ EventLoopIdle
    /\ pass[p].pc = "fail_alert"
    /\ pass' = [pass EXCEPT ![p].pc = "rejected"]
    /\ UNCHANGED <<store, nextId, clock, isApplicationHealthy, alerts,
                   dbFailures, app, cronCount, sendFailures, health, dbCall, config>>

\* sendSlackAlert of the outer catch has returned: the pass returns.
FailAlertDone(p) ==
    /\ EventLoopIdle
    /\ pass[p].pc = "fail_alert"
    /\ pass' = [pass EXCEPT ![p] = Returned(pass[p], isApplicationHealthy)]
    /\ UNCHANGED <<store, nextId, clock, isApplicationHealthy, alerts,
                   dbFailures, app, cronCount, sendFailures, health, dbCall, config>>

\* getEventingMetrics (which catches every error) has returned.  After the
\* first check startApplication sets the flag to true.
MetricsDone(p) ==
    /\ EventLoopIdle
    /\ pass[p].pc = "metrics"
    /\ pass' = [pass EXCEPT ![p].pc = "done"]
    /\ IF p = StartupPass
       THEN /\ setApplicationStatus(TRUE)
            /\ app' = "running"
       ELSE UNCHANGED <<isApplicationHealthy, app>>
    /\ UNCHANGED <<store, nextId, clock, alerts, dbFailures, cronCount,
                   sendFailures, health, dbCall, config>>

\* A row left by an earlier run of the program (timestamp 0, id 1).
EarlierRun == 9
EarlierRow(functionName, status) ==
    [id |-> 1, function_name |-> functionName, status |-> status,
     message |-> IF status = "error"
                 THEN ErrorCheckingMessage(FetchError(1))
                 ELSE <<"Eventing Function", status>>,
     timestamp |-> 0, by |-> EarlierRun]

InheritedStores ==
    {<<>>} \cup {<<EarlierRow("f1", st)>> : st \in RawStatuses \cup {"error"}}

\* The stores of the smaller specifications: empty, or one function that an
\* earlier run has left deployed.
FailStores == {<<>>, <<EarlierRow("f1", "deployed")>>}

\* ---------------------------------------------------------------------
\* Spec: the first check of startApplication, over a store that is empty
\* or inherited, with every stats answer, failing stats fetches and
\* failing store operations.
Init == InitWith(InheritedStores, MaxDbFailures, 0)

Next ==
    \/ StartApplication
    \/ StartupPassStart
    \/ ListDone(StartupPass, LiveLists)
    \/ StatsDone(StartupPass, StatsInputs, 1..4)
    \/ ReadDone(StartupPass)
    \/ UfsReadDone(StartupPass)
    \/ UfsInsertDone(StartupPass)
    \/ UfsAlertDone(StartupPass)
    \/ RemoveDone(StartupPass)
    \/ FailAlertDone(StartupPass)
    \/ MetricsDone(StartupPass)

Spec == Init /\ [][Next]_vars

\* ---------------------------------------------------------------------
\* SpecCron: the first check and the cron-triggered checks, in every
\* interleaving of their continuations, over one function that is deployed
\* or paused.
CronLists == {<<"f1">>}
CronStats == {[NoStats EXCEPT !.composite_status = st] :
                 st \in {"deployed", "paused"}}

InitCron == InitWith({<<>>}, 0, 0)

NextCron ==
    \/ StartApplication
    \/ StartupPassStart
    \/ CronTick(MaxCronTicks)
    \/ \E p \in PassIds : ListDone(p, CronLists)
    \/ \E p \in PassIds : StatsDone(p, CronStats, {})
    \/ \E p \in PassIds : ReadDone(p)
    \/ \E p \in PassIds : UfsReadDone(p)
    \/ \E p \in PassIds : UfsInsertDone(p)
    \/ \E p \in PassIds : UfsAlertDone(p)
    \/ \E p \in PassIds : RemoveDone(p)
    \/ \E p \in PassIds : FailAlertDone(p)
    \/ \E p \in PassIds : MetricsDone(p)

SpecCron == InitCron /\ [][NextCron]_vars

\* ---------------------------------------------------------------------
\* SpecStore: the store functions of database.ts called one after the other
\* by a single client, each call running to its end before the next.
StoreLists == {<<>>, <<"f1">>, <<"f1", "f2">>, <<"f3">>}
StoreStatuses == {"deployed", "paused"}

\* updateFunctionStatus(name, status, message): reads the latest row,
\* inserts the new one and alerts on a change.
DbUpdateFunctionStatus ==
    /\ nextId < MaxRows + 2
    /\ \E name \in Range(NameOrder), status \in StoreStatuses, t \in DateNow :
       \E latest \in GetLatestResults(store, name) :
          /\ clock' = t
          /\ store' = InsertRow(store, nextId, name, status,
                                <<"Eventing Function", status>>, t, NoPass)
          /\ nextId' = nextId + 1
          /\ alerts' = IF StatusChanged(latest, status)
                       THEN Append(alerts, TransitionAlert(NoPass, name,
                                               latest, status, nextId))
                       ELSE alerts
          /\ dbCall' = [NoCall EXCEPT !.op = "updateFunctionStatus",
                                      !.name = name, !.before = store]
    /\ UNCHANGED <<isApplicationHealthy, pass, dbFailures, app, cronCount,
                   sendFailures, health, config>>

\* removeOutdatedFunctions(currentFunctions).
DbRemoveOutdatedFunctions ==
    /\ \E names \in StoreLists :
          /\ store' = DeleteNotIn(store, names)
          /\ dbCall' = [NoCall EXCEPT !.op = "removeOutdatedFunctions",
                                      !.names = names, !.before = store]
    /\ UNCHANGED <<nextId, clock, isApplicationHealthy, alerts, pass,
                   dbFailures, app, cronCount, sendFailures, health, config>>

\* getLatestFunctionStatus(functionName): a row, or null (no result).
DbGetLatestFunctionStatus ==
    /\ \E name \in Range(NameOrder) :
       \E r \in GetLatestResults(store, name) :
          dbCall' = [NoCall EXCEPT !.op = "getLatestFunctionStatus",
                                  !.name = name, !.before = store,
                                  !.result = IF r = NoRow THEN <<>> ELSE <<r>>]
    /\ UNCHANGED <<store, nextId, clock, isApplicationHealthy, alerts, pass,
                   dbFailures, app, cronCount, sendFailures, health, config>>

\* getLatestFunctionStatuses().
DbGetLatestFunctionStatuses ==
    /\ \E q \in GetLatestStatusesResults(store) :
          dbCall' = [NoCall EXCEPT !.op = "getLatestFunctionStatuses",
                                  !.before = store, !.result = q]
    /\ UNCHANGED <<store, nextId, clock, isApplicationHealthy, alerts, pass,
                   dbFailures, app, cronCount, sendFailures, health, config>>

InitStore == InitWith({<<>>}, 0, 0)

NextStore ==
    \/ DbUpdateFunctionStatus
    \/ DbRemoveOutdatedFunctions
    \/ DbGetLatestFunctionStatus
    \/ DbGetLatestFunctionStatuses

SpecStore == InitStore /\ [][NextStore]_vars

\* ---------------------------------------------------------------------
\* SpecHealth: requests to GET /health served while startApplication runs
\* its first check over one function.

\* composite_status values as the server may spell them.
HealthRawStatuses ==
    {"deployed", "DEPLOYED", "undeployed", "paused", "deploying",
     "undeploying", "bootstrapping"}

toLowerCase(rawStatus) ==
    IF rawStatus = "DEPLOYED" THEN "deployed" ELSE rawStatus

\* mapStatus of getFunctionStats.
mapStatus(rawStatus) ==
    LET lower == toLowerCase(rawStatus)
    IN  IF lower \in {"deployed", "undeployed", "paused", "deploying",
                      "undeploying"}
        THEN lower
        ELSE "undeployed"

\* What getFunctionStats(functionName) gives runHealthCheck: a mapped status,
\* or an error, which runHealthCheck turns into status undeployed.
StatsFetchFailed == "fetch failed"
HealthAnswers == HealthRawStatuses \cup {StatsFetchFailed}

HealthStatus(answer) ==
    IF answer = StatsFetchFailed THEN "undeployed" ELSE mapStatus(answer)

\* A request to GET /health arrives: runHealthCheck awaits getFunctionList.
HealthRequest ==
    /\ EventLoopIdle
    /\ app # "boot"
    /\ health.pc \in {"idle", "answered"}
    /\ health' = [IdleHealth EXCEPT
                      !.pc = "list",
                      !.afterPass = /\ pass[StartupPass].pc = "done"
                                    /\ pass[StartupPass].listed = "ok"
                                    /\ pass[StartupPass].returnedHealthy]
    /\ UNCHANGED <<store, nextId, clock, isApplicationHealthy, alerts, pass,
                   dbFailures, app, cronCount, sendFailures, dbCall, config>>

\* getFunctionList has answered runHealthCheck: on an error the catch
\* answers 500, otherwise the stats of all functions are fetched.
HealthListDone(lists) ==
    /\ EventLoopIdle
    /\ health.pc = "list"
    /\ \/ \E fl \in lists :
            health' = [health EXCEPT !.pc = "stats", !.functionList = fl]
       \/ health' = [health EXCEPT !.pc = "answered", !.listFailed = TRUE,
                                   !.code = 500,
                                   !.watcher = isApplicationHealthy]
    /\ UNCHANGED <<store, nextId, clock, isApplicationHealthy, alerts, pass,
                   dbFailures, app, cronCount, sendFailures, dbCall, config>>

\* Promise.all of the getFunctionStats calls has answered: the response is
\* built from the fetched statuses and the flag.
HealthStatsDone ==
    /\ EventLoopIdle
    /\ health.pc = "stats"
    /\ \E answer \in [Range(health.functionList) -> HealthAnswers] :
          LET functionStats ==
                  {<<fn, HealthStatus(answer[fn])>> :
                      fn \in Range(health.functionList)}
              undeployedFunctions ==
                  {fs \in functionStats : fs[2] = "undeployed"}
              pausedFunctions == {fs \in functionStats : fs[2] = "paused"}
              isEventingFunctionsHealthy ==
                  undeployedFunctions = {} /\ pausedFunctions = {}
          IN  health' = [health EXCEPT
                  !.pc = "answered",
                  !.functions = functionStats,
                  !.statsFailed = {fn \in Range(health.functionList) :
                                      answer[fn] = StatsFetchFailed},
                  !.watcher = isApplicationHealthy,
                  !.code = IF isApplicationHealthy
                              /\ isEventingFunctionsHealthy
                           THEN 200 ELSE 503]
    /\ UNCHANGED <<store, nextId, clock, isApplicationHealthy, alerts, pass,
                   dbFailures, app, cronCount, sendFailures, dbCall, config>>

InitHealth == InitWith(FailStores, 0, 0)

NextHealth ==
    \/ StartApplication
    \/ StartupPassStart
    \/ ListDone(StartupPass, CronLists)
    \/ StatsDone(StartupPass, CronStats, {1})
    \/ ReadDone(StartupPass)
    \/ UfsReadDone(StartupPass)
    \/ UfsInsertDone(StartupPass)
    \/ UfsAlertDone(StartupPass)
    \/ RemoveDone(StartupPass)
    \/ FailAlertDone(StartupPass)
    \/ MetricsDone(StartupPass)
    \/ HealthRequest
    \/ HealthListDone(LiveLists)
    \/ HealthStatsDone

SpecHealth == InitHealth /\ [][NextHealth]_vars

\* ---------------------------------------------------------------------
\* SpecFail: the first check of startApplication over functions that were
\* deployed in an earlier run or are new, with failing list fetches, stats
\* fetches, store operations and webhook sends.  The event loop runs every
\* continuation that is ready, and every request is answered.
InitFail == InitWith(FailStores, MaxDbFailures, MaxSendFailures)

NextFail ==
    \/ StartApplication
    \/ StartupPassStart
    \/ ListDone(StartupPass, LiveLists)
    \/ StatsDone(StartupPass, CronStats, {1})
    \/ ReadDone(StartupPass)
    \/ UfsReadDone(StartupPass)
    \/ UfsInsertDone(StartupPass)
    \/ UfsAlertDone(StartupPass)
    \/ RemoveDone(StartupPass)
    \/ FailAlertDone(StartupPass)
    \/ MetricsDone(StartupPass)

SpecFail == InitFail /\ [][NextFail]_vars /\ WF_vars(NextFail)

\* ---------------------------------------------------------------------
\* SpecNotify: the first check and the cron-triggered checks of SpecCron,
\* over the store of an earlier run that saw the function deployed, with
\* failing webhook sends.
InitNotify == InitWith({<<EarlierRow("f1", "deployed")>>}, 0, MaxSendFailures)

SpecNotify == InitNotify /\ [][NextCron]_vars /\ WF_vars(NextCron)

\* ---------------------------------------------------------------------
\* SpecConfig: the first check of startApplication under every environment
\* the configuration loads from, over one function whose backlog is around
\* the threshold and whose composite status is one of those the server
\* reports while a function changes state.
ConfigEnvs ==
    [DCP_BACKLOG_THRESHOLD : {Unset, NotANumber, 0, 1, DCP_BACKLOG_THRESHOLD},
     ALERT_TYPE : {0, 1, 2, 3}]

ConfigRawStatuses == {"deployed", "paused", "pausing"}

ConfigStats ==
    [composite_status : ConfigRawStatuses,
     redeploy_required : {FALSE},
     dcp_backlog : {0, 1, 2, DCP_BACKLOG_THRESHOLD, DCP_BACKLOG_THRESHOLD + 1},
     on_update_failure : {0},
     on_delete_failure : {0},
     timeout_count : {0}]

InitConfig ==
    /\ InitState(FailStores, 0, 0)
    /\ \E loader \in Loaders : \E env \in ConfigEnvs :
          /\ ~LoadConfigThrows(loader, env)
          /\ config = LoadConfig(loader, env)

NextConfig ==
    \/ StartApplication
    \/ StartupPassStart
    \/ ListDone(StartupPass, {<<"f1">>})
    \/ StatsDone(StartupPass, ConfigStats, {})
    \/ ReadDone(StartupPass)
    \/ UfsReadDone(StartupPass)
    \/ UfsInsertDone(StartupPass)
    \/ UfsAlertDone(StartupPass)
    \/ RemoveDone(StartupPass)
    \/ FailAlertDone(StartupPass)
    \/ MetricsDone(StartupPass)

SpecConfig == InitConfig /\ [][NextConfig]_vars

\* ---------------------------------------------------------------------
\* SpecOverlap: the first check and the cron-triggered checks of SpecCron
\* over a live list from which the function disappears and to which it
\* comes back.
OverlapLists == {<<>>, <<"f1">>}

NextOverlap ==
    \/ StartApplication
    \/ StartupPassStart
    \/ CronTick(MaxCronTicks)
    \/ \E p \in PassIds : ListDone(p, OverlapLists)
    \/ \E p \in PassIds : StatsDone(p, CronStats, {})
    \/ \E p \in PassIds : ReadDone(p)
    \/ \E p \in PassIds : UfsReadDone(p)
    \/ \E p \in PassIds : UfsInsertDone(p)
    \/ \E p \in PassIds : UfsAlertDone(p)
    \/ \E p \in PassIds : RemoveDone(p)
    \/ \E p \in PassIds : FailAlertDone(p)
    \/ \E p \in PassIds : MetricsDone(p)

SpecOverlap == InitCron /\ [][NextOverlap]_vars

\* ---------------------------------------------------------------------
\* SpecPair: SpecOverlap with fewer cron triggers: the first check and the
\* checks of MaxPairTicks triggers, in every interleaving.
NextPair ==
    \/ StartApplication
    \/ StartupPassStart
    \/ CronTick(MaxPairTicks)
    \/ \E p \in PassIds : ListDone(p, OverlapLists)
    \/ \E p \in PassIds : StatsDone(p, CronStats, {})
    \/ \E p \in PassIds : ReadDone(p)
    \/ \E p \in PassIds : UfsReadDone(p)
    \/ \E p \in PassIds : UfsInsertDone(p)
    \/ \E p \in PassIds : UfsAlertDone(p)
    \/ \E p \in PassIds : RemoveDone(p)
    \/ \E p \in PassIds : FailAlertDone(p)
    \/ \E p \in PassIds : MetricsDone(p)

SpecPair == InitCron /\ [][NextPair]_vars

\* ---------------------------------------------------------------------
\* Properties

HasReturned(p) == pass[p].pc \in {"metrics", "done"}

InProgress(p) ==
    pass[p].pc \in {"list", "stats", "read", "ufs_read", "ufs_insert",
                    "ufs_alert", "remove", "fail_alert"}

AlertsOf(p) == {k \in DOMAIN alerts : alerts[k].pass = p}

TransitionAlertsFor(rowId) ==
    {k \in DOMAIN alerts :
        alerts[k].kind = "transition" /\ alerts[k].row = rowId}

\* The rows of the function pass p has just inserted a row for, without
\* that row, and the latest of them.
PriorRows(p) ==
    {store[k] : k \in {j \in DOMAIN store :
        /\ store[j].function_name = FunctionName(pass[p])
        /\ store[j].id # pass[p].res.id}}

LatestPrior(p) ==
    {r \in PriorRows(p) : \A q \in PriorRows(p) : q.timestamp <= r.timestamp}

\* The step sends a transition alert of pass p for its current function.
SendsTransitionAlert(p) ==
    /\ Len(alerts') = Len(alerts) + 1
    /\ alerts'[Len(alerts')].kind = "transition"
    /\ alerts'[Len(alerts')].pass = p
    /\ alerts'[Len(alerts')].functionName = FunctionName(pass[p])

\* C1: the step of updateFunctionStatus that follows a successful insert
\* sends a transition alert if and only if the function had a row before
\* and the latest such row has another status than the new one; a function
\* seen for the first time gets no transition alert, whatever its status;
\* no other step sends a transition alert.
C1_TransitionIffChanged ==
    [][ /\ \A p \in PassIds :
             (pass[p].pc = "ufs_insert" /\ ~pass[p].threw
                /\ pass'[p] # pass[p])
             => (SendsTransitionAlert(p)
                   <=> \E r \in LatestPrior(p) : r.status # pass[p].status)
        /\ (Len(alerts') > Len(alerts)
              /\ alerts'[Len(alerts')].kind = "transition")
           => \E p \in PassIds :
                 pass[p].pc = "ufs_insert" /\ SendsTransitionAlert(p)
      ]_vars

\* A transition alert has been sent for a changed function, and a function
\* first seen with status error has its row and no transition alert.
C1_Witness ==
    /\ \E k \in DOMAIN alerts : alerts[k].kind = "transition"
    /\ \E j \in DOMAIN store :
          /\ store[j].status = "error"
          /\ store[j].by = StartupPass
          /\ pass[StartupPass].pc = "remove"
          /\ \A m \in DOMAIN store :
                store[m].function_name = store[j].function_name => m = j
          /\ TransitionAlertsFor(store[j].id) = {}

\* C2: every transition alert has severity warning when the new status is
\* error or paused; severity info and the recovered message when the new
\* status is deployed and the previous one error or paused; otherwise
\* severity info and a message that names the previous and the new status.
C2_SeverityAndMessage ==
    \A k \in DOMAIN alerts :
        LET a == alerts[k]
        IN  a.kind = "transition" =>
              /\ a.previousStatus # a.currentStatus
              /\ IF a.currentStatus \in {"error", "paused"}
                 THEN a.severity = "warning"
                 ELSE IF a.currentStatus = "deployed"
                         /\ a.previousStatus \in {"error", "paused"}
                      THEN a.severity = "info" /\ a.text = "has recovered"
                      ELSE /\ a.severity = "info"
                           /\ a.text = "status changed"
                           /\ a.names = {a.previousStatus, a.currentStatus}

\* A transition alert for undeployed -> deployed has been sent: the target is
\* deployed but the previous status is neither error nor paused, so the
\* generic 'status changed' message applies and not the recovery one.
C2_Witness ==
    \E k \in DOMAIN alerts :
        /\ alerts[k].kind = "transition"
        /\ alerts[k].previousStatus = "undeployed"
        /\ alerts[k].currentStatus = "deployed"
        /\ alerts[k].text = "status changed"

\* The insert of row r has been followed by the comparison of its call.
Decided(r) ==
    ~(r.by \in PassIds /\ pass[r.by].pc = "ufs_insert"
        /\ pass[r.by].res.id = r.id)

ConsecutiveRows(i, j) ==
    /\ i < j
    /\ store[i].function_name = store[j].function_name
    /\ \A m \in DOMAIN store :
          (i < m /\ m < j) => store[m].function_name # store[i].function_name

\* C3: for any two rows of a function inserted one after the other, exactly
\* one transition alert is sent for the later row if their statuses differ,
\* and none if they are equal.
C3_ExactlyOneAlertPerChange ==
    \A i, j \in DOMAIN store :
        (ConsecutiveRows(i, j) /\ Decided(store[j]))
        => Cardinality(TransitionAlertsFor(store[j].id))
             = (IF store[i].status # store[j].status THEN 1 ELSE 0)

\* C4: a pass whose function-list fetch failed issues no INSERT and no
\* DELETE, leaves the rows as they were, and sends exactly one alert, with
\* severity error and without a function name.
C4_ListFailureLeavesStore ==
    \A p \in PassIds :
        pass[p].listed = "failed" =>
          /\ pass[p].writes = 0
          /\ pass[p].insertAttempted = {}
          /\ store \in InheritedStores
          /\ Cardinality(AlertsOf(p)) = 1
          /\ \A k \in AlertsOf(p) :
                alerts[k].severity = "error" /\ alerts[k].functionName = NoName

C4_Witness ==
    /\ pass[StartupPass].listed = "failed"
    /\ pass[StartupPass].pc = "done"
    /\ store # <<>>

\* C5: once a pass whose function-list fetch failed has returned, and no
\* other pass has started, the application-health flag is false.
C5_FlagFalseAfterFailedPass ==
    \A p \in PassIds :
        (pass[p].listed = "failed" /\ HasReturned(p)
           /\ \A q \in PassIds \ {p} : pass[q].pc = "idle")
        => ~isApplicationHealthy

\* C6: a pass whose function-list fetch succeeded and whose bulk delete did
\* not fail returns with the application-health flag true.
C6_FlagTrueAfterListedPass ==
    \A p \in PassIds :
        (pass[p].listed = "ok" /\ HasReturned(p) /\ ~pass[p].removeFailed)
        => pass[p].returnedHealthy

\* C7: when a pass whose function-list fetch succeeded has returned, the
\* stats of every function of its list were fetched, and the INSERT was
\* issued for every function during whose own processing no store
\* operation failed.
C7_EveryFunctionProcessed ==
    \A p \in PassIds :
        (pass[p].listed = "ok" /\ HasReturned(p)) =>
          \A fn \in Range(pass[p].functionList) :
              /\ fn \in pass[p].fetchStarted
              /\ fn \notin pass[p].storeFailedIn
                    => fn \in pass[p].insertAttempted

\* C8: a function one of whose stats fetches failed in a pass is not tested
\* for breaches in that pass, every row the pass inserts for it has status
\* error and the message "Error checking function: <error of the fetch>",
\* and the pass sends no alert other than a transition alert for it.
C8_FetchFailureGivesErrorRow ==
    \A p \in PassIds :
        \A ff \in pass[p].fetchFailed :
            /\ ff[1] \notin pass[p].evaluated
            /\ \A j \in DOMAIN store :
                  (store[j].by = p /\ store[j].function_name = ff[1])
                  => /\ store[j].status = "error"
                     /\ store[j].message = <<"Error checking function", ff[2]>>
            /\ \A k \in AlertsOf(p) :
                  alerts[k].functionName = ff[1]
                  => alerts[k].kind = "transition"

C8_Witness ==
    \E ff \in pass[StartupPass].fetchFailed :
        \E j \in DOMAIN store :
            /\ store[j].by = StartupPass
            /\ store[j].function_name = ff[1]
            /\ ff[2] = FetchError(3)

BreachSeverity(kind) ==
    IF kind = "backlog_exceeded" THEN "error" ELSE "warning"

\* C9: when the last function of a pass has been processed with its stats
\* fetched, the pass has sent one alert for each breach found for it, at the
\* severity of the breach.
C9_OneAlertPerBreach ==
    \A p \in PassIds :
        pass[p].pc = "remove" =>
          \A b \in pass[p].breaches :
              \E k \in AlertsOf(p) :
                  /\ alerts[k].kind = "breach"
                  /\ alerts[k].functionName = FunctionName(pass[p])
                  /\ alerts[k].severity = BreachSeverity(b)

\* C10: at most one reconciliation pass is in progress.
C10_AtMostOnePass ==
    Cardinality({p \in PassIds : InProgress(p)}) <= 1

\* The rows pass p has inserted for function fn.
RowsBy(p, fn) ==
    {j \in DOMAIN store : store[j].by = p /\ store[j].function_name = fn}

NoStoreFailure(p) == pass[p].storeFailedIn = {} /\ ~pass[p].removeFailed

\* C11: a pass whose function-list fetch succeeded and in which no store
\* operation failed has inserted exactly one row for every function of its
\* list and none for another name, whether or not the status is that of the
\* function's previous row; a step appends one row and leaves the others as
\* they are, or it is a bulk delete and only removes rows.
C11_OneNewRowPerFunction ==
    [][ /\ \A p \in PassIds :
             (pass[p].listed = "ok" /\ HasReturned(p) /\ NoStoreFailure(p))
             => /\ \A fn \in Range(pass[p].functionList) :
                      Cardinality(RowsBy(p, fn)) = 1
                /\ \A j \in DOMAIN store :
                      store[j].by = p
                      => store[j].function_name \in Range(pass[p].functionList)
        /\ \/ store' = store
           \/ /\ Len(store') = Len(store) + 1
              /\ SubSeq(store', 1, Len(store)) = store
           \/ /\ \E p \in PassIds : pass'[p].removes = pass[p].removes + 1
              /\ \E names \in SUBSET {store[j].function_name : j \in DOMAIN store} :
                    store' = SelectSeq(store,
                                 LAMBDA r : r.function_name \in names)
      ]_vars

\* A pass has ended after inserting a second row with status deployed for a
\* function whose previous row has status deployed.
C11_Witness ==
    /\ pass[StartupPass].pc = "done"
    /\ pass[StartupPass].listed = "ok"
    /\ NoStoreFailure(StartupPass)
    /\ Len(store) = 2
    /\ store[1].by = EarlierRun /\ store[1].status = "deployed"
    /\ store[2].by = StartupPass /\ store[2].status = "deployed"
    /\ store[2].function_name = store[1].function_name

\* The pass is between the start of its first stats fetch and the end of its
\* last row insert.
Inserting(p) ==
    pass[p].pc \in {"stats", "read", "ufs_read", "ufs_insert", "ufs_alert"}

\* C12: a pass whose function-list fetch succeeded has issued the bulk delete
\* exactly once when it returns, and no pass issues the bulk delete before
\* or between its row inserts.
C12_DeleteOnceAfterInserts ==
    \A p \in PassIds :
        /\ (pass[p].listed = "ok" /\ HasReturned(p)) => pass[p].removes = 1
        /\ pass[p].removes <= 1
        /\ Inserting(p) => pass[p].removes = 0

\* C13: after removeOutdatedFunctions(names) the store holds exactly the rows
\* it held before whose function name is in names, each unchanged and in the
\* same order, older rows of those names included; called on an empty store
\* it leaves the store empty.
C13_RemoveKeepsListedRows ==
    dbCall.op = "removeOutdatedFunctions" =>
      LET before == dbCall.before
          kept == {j \in DOMAIN before :
                      before[j].function_name \in Range(dbCall.names)}
      IN  /\ \A j \in kept : before[j] \in Range(store)
          /\ \A j \in DOMAIN before \ kept : before[j] \notin Range(store)
          /\ Range(store) \subseteq Range(before)
          /\ Len(store) = Cardinality(kept)
          /\ \A a, b \in DOMAIN store : a < b => store[a].id < store[b].id
          /\ before = <<>> => store = <<>>

\* removeOutdatedFunctions(["f1", "f2"]) has removed a row of f3 and kept
\* two rows of f1.
C13_Witness ==
    /\ dbCall.op = "removeOutdatedFunctions"
    /\ dbCall.names = <<"f1", "f2">>
    /\ \E j \in DOMAIN dbCall.before : dbCall.before[j].function_name = "f3"
    /\ Len(store) = 2
    /\ store[1].function_name = "f1" /\ store[2].function_name = "f1"
    /\ store[1].timestamp < store[2].timestamp

\* C14: getLatestFunctionStatus(name) leaves the store as it is; it returns
\* null when the store has no row of that name, and otherwise a row of that
\* name than which no row of the name has a greater timestamp.
C14_LatestRowOrNull ==
    dbCall.op = "getLatestFunctionStatus" =>
      LET mine == {r \in Range(dbCall.before) :
                      r.function_name = dbCall.name}
      IN  /\ store = dbCall.before
          /\ mine = {} => dbCall.result = <<>>
          /\ mine # {} =>
                /\ Len(dbCall.result) = 1
                /\ dbCall.result[1] \in mine
                /\ \A r \in mine :
                      r.timestamp <= dbCall.result[1].timestamp

\* getLatestFunctionStatus has returned the later of two rows of a name.
C14_Witness ==
    /\ dbCall.op = "getLatestFunctionStatus"
    /\ Len(dbCall.result) = 1
    /\ \E r \in Range(store) :
          /\ r.function_name = dbCall.name
          /\ r.timestamp < dbCall.result[1].timestamp

\* C15: getLatestFunctionStatuses returns one row for each function name
\* that has rows in the store and no other row, each being a row with the
\* greatest timestamp of its name, in the order of the function names.
C15_OneLatestRowPerName ==
    dbCall.op = "getLatestFunctionStatuses" =>
      LET before == dbCall.before
          res == dbCall.result
          names == {before[j].function_name : j \in DOMAIN before}
      IN  /\ Len(res) = Cardinality(names)
          /\ {res[k].function_name : k \in DOMAIN res} = names
          /\ \A k \in DOMAIN res :
                /\ res[k] \in Range(before)
                /\ \A j \in DOMAIN before :
                      before[j].function_name = res[k].function_name
                      => before[j].timestamp <= res[k].timestamp
          /\ \A a, b \in DOMAIN res :
                a < b => NameIndex(res[a].function_name)
                           < NameIndex(res[b].function_name)

\* The statuses runHealthCheck counts as unhealthy.
HealthUnhealthy == {"undeployed", "paused"}

\* C16: a response to GET /health has status 200 when the flag is true and
\* no function is unhealthy, and status 503 otherwise, also when the
\* function list could not be fetched.
C16_Health200Or503 ==
    health.pc = "answered" =>
      health.code = (IF /\ ~health.listFailed
                       /\ health.watcher
                       /\ \A fs \in health.functions :
                             fs[2] \notin HealthUnhealthy
                    THEN 200 ELSE 503)

\* The status of the latest rows of the store, per function name.
LatestStatuses ==
    {<<store[j].function_name, store[j].status>> : j \in
        {k \in DOMAIN store :
            \A m \in DOMAIN store :
                store[m].function_name = store[k].function_name
                => store[m].timestamp <= store[k].timestamp}}

\* C17: a response to a request made after the first check has completed
\* reports, for each function, the status of the latest row of the store.
C17_HealthServesPersisted ==
    (health.pc = "answered" /\ health.afterPass /\ ~health.listFailed)
    => health.functions = LatestStatuses

\* C18: when a webhook send fails, sendSlackAlert returns false, and the
\* pass takes the same next step as after a send that succeeded: after a
\* transition alert the next function or the bulk delete, after the alert
\* of the outer catch the return to the caller; no step after a send enters
\* a catch block or sends another alert.
C18_FailedSendDoesNotAbort ==
    [][ \A p \in PassIds :
          /\ (pass[p].pc \in {"ufs_alert", "fail_alert"})
             => (pass[p].sent <=> alerts[Len(alerts)].delivered)
          /\ (pass[p].pc = "ufs_alert" /\ pass'[p] # pass[p])
             => /\ pass'[p].pc = IF pass[p].i < Len(pass[p].functionList)
                                 THEN "stats" ELSE "remove"
                /\ pass'[p].inCatch => pass[p].inCatch
                /\ alerts' = alerts
                /\ isApplicationHealthy' = isApplicationHealthy
          /\ (pass[p].pc = "fail_alert" /\ pass'[p] # pass[p])
             => /\ pass'[p].pc = "metrics"
                /\ alerts' = alerts
      ]_vars

\* A pass has completed, bulk delete included, and returned with the flag
\* true after the send of its transition alert failed.
C18_Witness ==
    /\ pass[StartupPass].pc = "done"
    /\ pass[StartupPass].removes = 1
    /\ pass[StartupPass].returnedHealthy
    /\ \E k \in AlertsOf(StartupPass) :
          alerts[k].kind = "transition" /\ ~alerts[k].delivered

\* C19: every pass that has started returns normally to its caller, whatever
\* list fetch, stats fetch, store operation or webhook send fails in it, and
\* startApplication gets past its first check to the state in which the
\* scheduled triggers run.
C19_PassEndsNormally ==
    /\ \A p \in PassIds : InProgress(p) ~> HasReturned(p)
    /\ (app = "first_check") ~> (app = "running")

\* The first check has returned and startApplication runs on after a stats
\* fetch, a store operation in the catch block and the send of the alert of
\* the outer catch have failed.
C19_Witness ==
    /\ app = "running"
    /\ pass[StartupPass].pc = "done"
    /\ pass[StartupPass].fetchFailed # {}
    /\ pass[StartupPass].storeFailedIn # {}
    /\ \E k \in AlertsOf(StartupPass) :
          alerts[k].kind = "process" /\ ~alerts[k].delivered

\* A transition alert whose send failed and that no later delivered alert
\* for the same function and new status has made up for.
UndeliveredTransition ==
    \E k \in DOMAIN alerts :
        /\ alerts[k].kind = "transition"
        /\ ~alerts[k].delivered
        /\ ~\E m \in DOMAIN alerts :
               /\ m > k
               /\ alerts[m].kind = "transition"
               /\ alerts[m].functionName = alerts[k].functionName
               /\ alerts[m].currentStatus = alerts[k].currentStatus
               /\ alerts[m].delivered

\* No transition alert has been sent for a row that has the status of the
\* row its pass read as the previous one.
NoAlertForUnchanged ==
    \A k \in DOMAIN alerts :
        alerts[k].kind = "transition"
        => alerts[k].previousStatus # alerts[k].currentStatus

\* A later pass has read the row of an undelivered transition as the
\* previous row of the function and has inserted a row with the same status.
SeenUnchangedSince ==
    \E k \in DOMAIN alerts, p \in PassIds :
        /\ alerts[k].kind = "transition"
        /\ ~alerts[k].delivered
        /\ pass[p].pc = "ufs_insert"
        /\ ~pass[p].threw
        /\ pass[p].latestStatus.id = alerts[k].row
        /\ pass[p].status = alerts[k].currentStatus

C21_AlertsFollowSelector ==
    \A k \in DOMAIN alerts :
        alerts[k].pass \in PassIds
        => /\ sendAlertTransport(config.messaging.ALERT_TYPE) # "none"
           /\ alerts[k].transport
                = sendAlertTransport(config.messaging.ALERT_TYPE)

\* C23: for every backlog size b fetched for a function and every threshold
\* t >= 0 set in the environment, t = 0 included, the pass finds the backlog
\* breach if and only if b > t.
C23_BacklogBreachIffAbove ==
    \A p \in PassIds :
        (/\ pass[p].pc \in {"read", "ufs_read", "ufs_insert", "ufs_alert"}
         /\ ~pass[p].inCatch
         /\ config.env.DCP_BACKLOG_THRESHOLD >= 0)
        => (("backlog_exceeded" \in pass[p].breaches)
              <=> pass[p].dcpBacklog > config.env.DCP_BACKLOG_THRESHOLD)

\* C22: every row of the store has one of the statuses deployed, undeployed,
\* paused, deploying, undeploying and error; a composite status the server
\* reports outside these is persisted as undeployed.
C22_RowStatusEnumerated ==
    \A k \in DOMAIN store :
        store[k].status \in {"deployed", "undeployed", "paused", "deploying",
                             "undeploying", "error"}

\* The message of one breach, and the breach that comes first in the order
\* redeploy_required, backlog_exceeded, execution_failures, timeouts.
BreachMessage(kind) ==
    CASE kind = "redeploy_required" -> <<"requires redeployment", "">>
      [] kind = "backlog_exceeded" -> <<"DCP backlog size exceeds threshold", "">>
      [] kind = "execution_failures" -> <<"Function execution failures detected", "">>
      [] OTHER -> <<"has timeouts detected", "">>

FirstBreach(found) ==
    IF "redeploy_required" \in found THEN "redeploy_required"
    ELSE IF "backlog_exceeded" \in found THEN "backlog_exceeded"
    ELSE IF "execution_failures" \in found THEN "execution_failures"
    ELSE "timeouts"

\* C24: the message a pass hands to the store for a function whose stats it
\* fetched is the message of the first breach present, in the order
\* redeploy_required, backlog_exceeded, execution_failures, timeouts; with
\* no breach it is the message of normal operation, which names the
\* composite status.
C24_FirstBreachGivesMessage ==
    \A p \in PassIds :
        (pass[p].pc \in {"ufs_read", "ufs_insert", "ufs_alert"}
         /\ ~pass[p].inCatch)
        => pass[p].message
             = IF pass[p].breaches = {}
               THEN <<"Eventing Function", pass[p].functionStatus>>
               ELSE BreachMessage(FirstBreach(pass[p].breaches))

\* C25: while a pass processes one function, the read of the function's
\* latest row is complete before the new row is inserted: the row
\* updateFunctionStatus compares with is the answer of the read it issued
\* before the INSERT, an older row or none, and never the row just written.
C25_ReadBeforeInsert ==
    [][\A p \in PassIds :
          (pass[p].pc = "ufs_read" /\ pass'[p].pc = "ufs_insert"
           /\ Len(store') = Len(store) + 1)
          => /\ pass'[p].latestStatus = pass[p].res
             /\ pass'[p].latestStatus.id < store'[Len(store')].id
             /\ store'[Len(store')].function_name = FunctionName(pass[p])]_vars

\* A pass has inserted the row of a function that had a row before.
C25_Witness ==
    \E p \in PassIds :
        /\ pass[p].pc = "ufs_insert"
        /\ ~pass[p].threw
        /\ pass[p].latestStatus # NoRow
        /\ \E k \in DOMAIN store :
              store[k].id = pass[p].res.id /\ store[k].by = p

\* The alerts a step appends.
NewAlerts == {alerts'[k] : k \in DOMAIN alerts' \ DOMAIN alerts}

\* C26: updateFunctionStatus sends the transition alert only after the row
\* is inserted: the row the alert is about is in the store when the alert
\* is sent.  When the INSERT fails, the call sends no transition alert and
\* throws the error on to the catch of its caller.
C26_AlertOnlyAfterInsert ==
    [][\A p \in PassIds :
          /\ (pass[p].pc = "ufs_insert" /\ pass[p].threw)
             => /\ \A a \in NewAlerts : a.kind # "transition"
                /\ IF pass[p].inCatch
                   THEN pass'[p].pc = "fail_alert"
                   ELSE /\ pass'[p].pc = "read"
                        /\ pass'[p].inCatch
                        /\ pass'[p].errorMessage = DbError
          /\ \A a \in NewAlerts :
                (a.kind = "transition" /\ a.pass = p)
                => /\ pass[p].pc = "ufs_insert"
                   /\ ~pass[p].threw
                   /\ \E k \in DOMAIN store :
                         /\ store[k].id = a.row
                         /\ store[k].by = p
                         /\ store[k].function_name = a.functionName
                         /\ store[k].status = a.currentStatus]_vars

\* The INSERT of a changed status has failed: the call has thrown to the
\* catch of the function and no transition alert was sent.
C26_Witness ==
    \E p \in PassIds :
        /\ pass[p].pc = "read"
        /\ pass[p].inCatch
        /\ FunctionName(pass[p]) \in pass[p].insertAttempted
        /\ FunctionName(pass[p]) \in pass[p].storeFailedIn
        /\ StatusChanged(pass[p].latestStatus, pass[p].status)
        /\ \A k \in DOMAIN alerts : alerts[k].kind # "transition"

\* The functions of which a stats fetch failed in pass p.
FetchFailedIn(p) == {ff[1] : ff \in pass[p].fetchFailed}

\* C27: a pass persists a row of status error for a function only if one of
\* the function's stats fetches failed in that pass; a store operation that
\* fails while a function with fetched stats is processed leads to no error
\* row and to no transition alert to error for it.
C27_ErrorRowOnlyForFailedFetch ==
    \A p \in PassIds :
        /\ \A k \in DOMAIN store :
              (store[k].by = p /\ store[k].status = "error")
              => store[k].function_name \in FetchFailedIn(p)
        /\ \A k \in DOMAIN alerts :
              (alerts[k].pass = p /\ alerts[k].kind = "transition"
               /\ alerts[k].currentStatus = "error")
              => alerts[k].functionName \in FetchFailedIn(p)

\* Row r comes from before pass p got its live list: it was written by an
\* earlier run or by a pass that got its live list before p did.
FromBefore(r, p) ==
    /\ r # NoRow
    /\ r.by \in PassIds => pass[r.by].listSeq < pass[p].listSeq

\* C28: a function that was absent from the live list of a pass that has
\* completed, and that the next live list fetched holds again, is a first
\* observation for the pass that fetched that list: no row from before
\* remains for the pass to compare with, and the pass sends no transition
\* alert against such a row.
C28_ReappearanceIsFirstObservation ==
    \A p \in PassIds :
        (/\ pass[p].pc \in {"ufs_insert", "ufs_alert"}
         /\ FunctionName(pass[p]) \in pass[p].reappeared)
        => ~FromBefore(pass[p].latestStatus, p)

\* C29: after any sequence of inserts for a function, two inserts within
\* one millisecond included, getLatestFunctionStatus returns the row of the
\* function that was inserted last (the one with the greatest id).
C29_LatestIsLastInserted ==
    dbCall.op = "getLatestFunctionStatus" =>
      LET mine == {r \in Range(dbCall.before) :
                      r.function_name = dbCall.name}
      IN  mine # {} =>
            /\ Len(dbCall.result) = 1
            /\ \A r \in mine : r.id <= dbCall.result[1].id

\* The pass that returned from checkEventingService last.
LastFinished ==
    {q \in PassIds : pass[q].finishSeq > 0 /\ pass[q].finishSeq = Finished}

\* C30: whenever no pass is in progress and no store operation has failed,
\* every row of the store belongs to a function of the live list of the pass
\* that finished last, however the passes, which fetched different live
\* lists, have overlapped.
C30_RowsWithinLastLiveList ==
    (/\ \A p \in PassIds : ~InProgress(p) /\ NoStoreFailure(p)
     /\ \A q \in LastFinished : pass[q].listed = "ok")
    => \A q \in LastFinished : \A k \in DOMAIN store :
          store[k].function_name \in Range(pass[q].functionList)

\* Two passes that fetched different live lists have overlapped (the one
\* that got its list first returned last), no pass is in progress and the
\* store holds a row.
C30_Witness ==
    /\ \A p \in PassIds : ~InProgress(p) /\ NoStoreFailure(p)
    /\ store # <<>>
    /\ \E q \in LastFinished : \E r \in PassIds :
          /\ pass[q].listed = "ok" /\ pass[r].listed = "ok"
          /\ pass[q].functionList # pass[r].functionList
          /\ pass[q].listSeq < pass[r].listSeq
          /\ pass[r].finishSeq > 0

====
